---------------------------- MODULE Spec2Model ----------------------------
(***************************************************************************)
(* The volume lifecycle controller of cinder (cinder/volume/api.py, class  *)
(* API) as a state machine over the entity repository (volumes and         *)
(* snapshots), the quota manager's counters and the dispatch channel.      *)
(*                                                                         *)
(* Every controller operation is an operator, named as in the source,      *)
(* that maps the operation's inputs to its result in the current state:    *)
(* the outcome (ok or the exception raised), the side effects performed,   *)
(* in order, and the repository, quota counters and messages they leave.   *)
(* The action of the operation applies one of these results, so an action  *)
(* is the whole handler: policy check, precondition checks, quota calls,   *)
(* repository writes and the cast.  A step changes the state only by the  *)
(* side effects of the operation: an operation that raises before any      *)
(* side effect leaves every variable as it was.                            *)
(*                                                                         *)
(* The record a caller passes is read from the repository for the call     *)
(* (Spec), or it may also be the copy the caller holds from an earlier     *)
(* get (variable held, SpecHeld), which may be older than the row.         *)
(* Messages cast stay in flight until a worker takes them; what the        *)
(* scheduler and the workers write back is part of the model.              *)
(***************************************************************************)
EXTENDS Integers, Sequences, FiniteSets, TLC

(***************************************************************************)
(* Bounds of the model.                                                    *)
(***************************************************************************)
MaxVolumes == 1        \* volumes stored at the same time
MaxSnapshots == 1      \* snapshot rows that can ever be created
MaxSize == 2           \* largest size (in GB) a caller asks for
MaxQuotaSkew == 1      \* open reservations / negative usage the run may pile up
MaxCasts == 2          \* messages in flight at the same time
MaxListed == 2         \* volumes the repository lists for get_all

(***************************************************************************)
(* Program constants and configuration.                                    *)
(***************************************************************************)
GB == 1073741824       \* 1048576 * 1024

volume_topic == "volume"
scheduler_topic == "scheduler"

None == "None"         \* Python's None for a host
Hosts == {"host1"}     \* the worker hosts a scheduler can assign

\* one id more than rows, so that a volume can follow a destroyed one
VolumeIds == 1 .. (MaxVolumes + 1)
SnapshotIds == 1 .. MaxSnapshots

(***************************************************************************)
(* Rows of the repository.  row is "free" for an id never used, "live"     *)
(* for a stored entity and "gone" for a destroyed one.                     *)
(***************************************************************************)
FreeVolume ==
    [row |-> "free", status |-> "-", attach_status |-> "-", host |-> None,
     size |-> 0, snapshot_id |-> 0, terminated_at |-> FALSE]

GoneVolume == [FreeVolume EXCEPT !.row = "gone"]

FreeSnapshot ==
    [row |-> "free", status |-> "-", volume_id |-> 0, volume_size |-> 0]

GoneSnapshot == [FreeSnapshot EXCEPT !.row = "gone"]

NoCall == [op |-> "none"]

NoHeld ==
    [id |-> 0, status |-> "-", attach_status |-> "-", host |-> None, size |-> 0]

\* the callers that run operations on one volume at the same time
Callers == {"c1", "c2"}

\* a caller that is in no operation
Idle == [op |-> "-", pc |-> "idle", volume |-> NoHeld]

VARIABLES
    volumes,     \* repository: volume id -> row
    snapshots,   \* repository: snapshot id -> row
    quota,       \* quota manager: committed usage and open reservations
    casts,       \* dispatch channel: the messages in flight, in cast order
    held,        \* the volume record the caller holds (from its last get)
    call,        \* the last call of an operation that reads or writes only
                 \* what it is given (get_all, update_volume_metadata)
    flow         \* concurrent callers: for each, the operation it is in,
                 \* the record it read for it, and how far it got

vars == << volumes, snapshots, quota, casts, held, call, flow >>

(***************************************************************************)
(* Pure helpers.                                                           *)
(***************************************************************************)

\* a queue_get_for that forgets the host
QueueGetForBare(topic, host) == << topic >>

\* rpc.queue_get_for: the topic of a host, or the bare topic without a host
QueueGetFor(topic, host) ==
    IF host # None THEN << topic, host >> ELSE << topic >>

\* sizes a caller may pass: ints, strings, floats and no size at all
IntSize(n) == [t |-> "int", n |-> n, s |-> ""]
StrSize(s, n) == [t |-> "str", n |-> n, s |-> s]   \* n: the int the string encodes
BadStr(s) == [t |-> "badstr", n |-> 0, s |-> s]    \* int(s) raises ValueError
FloatSize(s, n) == [t |-> "float", n |-> n, s |-> s] \* n: the float truncated
NoneSize == [t |-> "none", n |-> 0, s |-> "None"]  \* int(None) raises TypeError

\* what as_int leaves when int(s) raises an error other than ValueError
TypeErrorRaised == [t |-> "TypeError", n |-> 0, s |-> ""]

\* as_int of create: int(s), or s itself when int(s) raises ValueError; a
\* TypeError is not caught
as_int(s) ==
    IF s.t \in {"int", "str", "float"} THEN IntSize(s.n)
    ELSE IF s.t = "none" THEN TypeErrorRaised
    ELSE s

\* isinstance(size, int) and size > 0
SizeAccepted(size) == size.t = "int" /\ size.n > 0

\* a `not size` that takes every size as given
NotSizeNever(s) == FALSE

\* `not size` of Python: 0, '' and None are false
NotSize(s) ==
    \/ s.t = "int" /\ s.n = 0
    \/ s.t = "badstr" /\ s.s = ""
    \/ s.t = "float" /\ s.s \in {"0.0", "-0.0"}
    \/ s.t = "none"

DigitStr == << "1", "2", "3", "4", "5" >>

SizeInputs ==
    {IntSize(n) : n \in -1 .. MaxSize}
        \cup {StrSize(DigitStr[n], n) : n \in {MaxSize}}
        \cup {BadStr(""), BadStr("2Gb")}
        \cup {FloatSize("1.5", 1), FloatSize("0.5", 0), FloatSize("0.0", 0),
              FloatSize("-1.5", -1), NoneSize}

\* an image as the image service reports it: size = gb * GB + rem bytes
\* (image_id 0 stands for no image_id)
NoImage == [id |-> 0, found |-> FALSE, gb |-> 0, rem |-> 0]
Image(gb, rem) == [id |-> 1, found |-> TRUE, gb |-> gb, rem |-> rem]
MissingImage == [id |-> 1, found |-> FALSE, gb |-> 0, rem |-> 0]

\* an image size in GB that rounds down
ImageSizeInGbFloor(image) == image.gb + (image.rem \div GB)

\* (int(image_meta['size']) + GB - 1) / GB, Python 2 integer division.  The
\* whole gigabytes are divided out first (they pass through the division
\* unchanged), which keeps the sum within 32 bits.
ImageSizeInGb(image) == image.gb + ((image.rem + GB - 1) \div GB)

\* image_size_in_gb > size
ImageTooLarge(image, size) == ImageSizeInGb(image) > size

\* the images a caller asking for `size` GB may name
ImageArgs(size) ==
    {MissingImage, Image(size, 0), Image(size, 1), Image(0, 1), Image(0, 0),
     Image(size - 1, GB - 1)}

\* the if/elif of create with its branches swapped: volumes looked at first
OverQuotaErrorVolumesFirst(overs) ==
    IF "volumes" \in overs THEN "VolumeLimitExceeded"
    ELSE IF "gigabytes" \in overs THEN "VolumeSizeExceedsAvailableQuota"
    ELSE "-"

\* the error create raises for an OverQuota naming `overs`; "-" when neither
\* branch of the if/elif is taken and control falls out of the except block
OverQuotaError(overs) ==
    IF "gigabytes" \in overs THEN "VolumeSizeExceedsAvailableQuota"
    ELSE IF "volumes" \in overs THEN "VolumeLimitExceeded"
    ELSE "-"

\* a status check of delete that ignores force
DeleteRefusedDespiteForce(force, status) ==
    status \notin {"available", "error"}

\* delete: `not force and volume['status'] not in ["available", "error"]`
DeleteRefused(force, status) ==
    ~force /\ status \notin {"available", "error"}

\* a status check of _create_snapshot that ignores force
SnapshotRefusedDespiteForce(force, status) ==
    status # "available"

\* _create_snapshot: `(not force) and (volume['status'] != "available")`
SnapshotRefused(force, status) ==
    ~force /\ status # "available"

\* a _check_volume_availability without its second check
VolumeUnavailableDespiteInUse(force, status) ==
    status \notin {"available", "in-use"}

\* _check_volume_availability: the two checks that raise InvalidVolume
VolumeUnavailable(force, status) ==
    \/ status \notin {"available", "in-use"}
    \/ ~force /\ status = "in-use"

\* delete_snapshot: `not force and snapshot['status'] not in [...]`
SnapshotDeleteRefused(force, status) ==
    ~force /\ status \notin {"available", "error"}

(***************************************************************************)
(* The quota manager (cinder.quota.QUOTAS), as the controller uses it:     *)
(* reserve opens a reservation, commit adds its deltas to the usage and    *)
(* closes it.  A reservation that is neither committed nor rolled back     *)
(* stays open.                                                             *)
(***************************************************************************)
Deltas(v, g) == [volumes |-> v, gigabytes |-> g]

AddDeltas(a, b) ==
    [volumes |-> a.volumes + b.volumes, gigabytes |-> a.gigabytes + b.gigabytes]

QuotaReserve(q) == [q EXCEPT !.open = @ + 1]

QuotaCommit(q, d) ==
    [q EXCEPT !.in_use = AddDeltas(@, d), !.open = @ - 1]

QuotaWithinBounds(q) ==
    /\ q.open <= MaxQuotaSkew
    /\ q.in_use.volumes >= -MaxQuotaSkew
    /\ q.in_use.volumes <= MaxVolumes

(***************************************************************************)
(* The repository (cinder.db), as the controller uses it.                  *)
(***************************************************************************)
\* whether db.volume_get / db.snapshot_get finds the row i among rows
Stored(rows, i) == i \in DOMAIN rows /\ rows[i].row = "live"

LiveVolume(i) == Stored(volumes, i)
LiveSnapshot(s) == Stored(snapshots, s)

LiveIn(rows) == {i \in DOMAIN rows : rows[i].row = "live"}

FreeVolumeIds == {i \in VolumeIds : volumes[i].row = "free"}
FreeSnapshotIds == {s \in SnapshotIds : snapshots[s].row = "free"}

\* the id the repository gives the next row (0: the model has no id left)
NextId(free) ==
    IF free = {} THEN 0 ELSE CHOOSE i \in free : \A j \in free : i <= j

\* a snapshot_get_all_for_volume that finds nothing
NoSnapshotsForVolume(i) == {}

\* db.snapshot_get_all_for_volume: the non-deleted snapshots of a volume
SnapshotsForVolume(i) ==
    {s \in SnapshotIds : snapshots[s].row = "live" /\ snapshots[s].volume_id = i}

\* the record of a volume a caller gets from the repository
RecordOf(i) ==
    [id |-> i, status |-> volumes[i].status,
     attach_status |-> volumes[i].attach_status,
     host |-> volumes[i].host, size |-> volumes[i].size]

\* the volume records a caller can pass: read for the call, or held since
\* an earlier get
VolumeArgs ==
    {RecordOf(i) : i \in LiveIn(volumes)}
        \cup (IF held.id # 0 THEN {held} ELSE {})

\* the snapshot records a caller can pass
SnapshotRecordOf(s) ==
    [id |-> s, status |-> snapshots[s].status,
     volume_id |-> snapshots[s].volume_id,
     volume_size |-> snapshots[s].volume_size]

SnapshotArgs == {SnapshotRecordOf(s) : s \in LiveIn(snapshots)}

\* whether the record a caller passes is older than the row
Stale(v) == ~LiveVolume(v.id) \/ v # RecordOf(v.id)

\* a message on the dispatch channel
Message(method, topic, v, s, img, fwd) ==
    [method |-> method, topic |-> topic, volume_id |-> v, snapshot_id |-> s,
     image_id |-> img, fwd |-> fwd]

(***************************************************************************)
(* Results.  The result of an operation on the inputs `in`: its outcome,   *)
(* the side effects it performed in order (events), the value it returns   *)
(* or the detail its exception carries, and what it leaves behind.  fits   *)
(* tells whether the result stays within the bounds of the model.          *)
(***************************************************************************)
Result(in, out, ev, value, vols, snaps, q, sent) ==
    [in |-> in, outcome |-> out, events |-> ev, value |-> value,
     volumes |-> vols, snapshots |-> snaps, quota |-> q, sent |-> sent,
     fits |-> /\ Cardinality(LiveIn(vols)) <= MaxVolumes
              /\ Len(casts) + Len(sent) <= MaxCasts
              /\ QuotaWithinBounds(q)]

\* the operation raised `out` before any side effect
Raises(in, out) ==
    Result(in, out, << >>, 0, volumes, snapshots, quota, << >>)

\* the model has no id left for the row the operation would store
OutOfIds(in) == [Raises(in, "-") EXCEPT !.fits = FALSE]

\* the results among rs (an operation that finds no id left has none)
Real(rs) == {r \in rs : r.outcome # "-"}

\* a step that puts the messages of r before those in flight
ApplyCastFirst(r) ==
    /\ r.fits
    /\ volumes' = r.volumes
    /\ snapshots' = r.snapshots
    /\ quota' = r.quota
    /\ casts' = r.sent \o casts
    /\ UNCHANGED << held, call, flow >>

\* the step of an operation whose result is r
Apply(r) ==
    /\ r.fits
    /\ volumes' = r.volumes
    /\ snapshots' = r.snapshots
    /\ quota' = r.quota
    /\ casts' = casts \o r.sent
    /\ UNCHANGED << held, call, flow >>

Init ==
    /\ volumes = [i \in VolumeIds |-> FreeVolume]
    /\ snapshots = [s \in SnapshotIds |-> FreeSnapshot]
    /\ quota = [in_use |-> Deltas(0, 0), open |-> 0]
    /\ casts = << >>
    /\ held = NoHeld
    /\ call = NoCall
    /\ flow = [c \in Callers |-> Idle]

(***************************************************************************)
(* create.                                                                 *)
(***************************************************************************)
NoSnapshot == [id |-> 0, status |-> "-", volume_id |-> 0, volume_size |-> 0]

\* a plain request: one GB, no snapshot, no image, no backend, nothing fails
\* (over, overs and quotas: whether QUOTAS.reserve raises OverQuota, and the
\* overs and quotas the exception carries)
PlainCreate ==
    [permit |-> TRUE, snapshot |-> NoSnapshot, size |-> IntSize(1),
     over |-> FALSE, overs |-> {}, image |-> NoImage, backend |-> "none",
     db_ok |-> TRUE, same_host |-> FALSE,
     quotas |-> [volumes |-> MaxVolumes, gigabytes |-> MaxVolumes * MaxSize]]

\* the requests of the model: each departs from the plain one in the
\* arguments, or in the answers of the services, that one check looks at
CreateInputs ==
    {[PlainCreate EXCEPT !.permit = FALSE]}
        \cup {[PlainCreate EXCEPT !.snapshot = s, !.size = z, !.same_host = h] :
                s \in SnapshotArgs, z \in SizeInputs, h \in BOOLEAN}
        \cup {[PlainCreate EXCEPT !.size = z] : z \in SizeInputs}
        \cup {[PlainCreate EXCEPT !.over = TRUE, !.overs = ov] :
                ov \in SUBSET {"gigabytes", "volumes"}}
        \cup UNION {{[PlainCreate EXCEPT !.size = IntSize(n), !.image = img] :
                        img \in ImageArgs(n)} : n \in 1 .. MaxSize}
        \cup {[PlainCreate EXCEPT !.backend = b] : b \in {"lvm", "unknown"}}
        \cup {[PlainCreate EXCEPT !.db_ok = FALSE]}

\* options that store the volume as attached
NewVolumeAttached(size, snapshot_id) ==
    [row |-> "live", status |-> "creating", attach_status |-> "attached",
     host |-> None, size |-> size, snapshot_id |-> snapshot_id,
     terminated_at |-> FALSE]

\* the options create stores (lines 157-170)
NewVolume(size, snapshot_id) ==
    [row |-> "live", status |-> "creating", attach_status |-> "detached",
     host |-> None, size |-> size, snapshot_id |-> snapshot_id,
     terminated_at |-> FALSE]

\* a _cast_create_volume that always goes through the scheduler
CastCreateVolumeToScheduler(in, id, ev, vols, q) ==
    Result(in, "ok", ev \o << "cast" >>, id, vols, snapshots, q,
           << Message("create_volume", << scheduler_topic >>,
                      id, in.snapshot.id, in.image.id, volume_topic) >>)

\* _cast_create_volume, after create stored the row `id` and committed
cast_create_volume(in, id, ev, vols, q) ==
    LET s == in.snapshot.id
        src == IF LiveSnapshot(s) THEN snapshots[s].volume_id ELSE 0
    IN  IF s # 0 /\ in.same_host
        THEN IF ~LiveSnapshot(s) \/ vols[src].row # "live"
             THEN Result(in, "NotFound", ev, 0, vols, snapshots, q, << >>)
             ELSE Result(in, "ok", ev \o << "cast" >>, id, vols, snapshots, q,
                    << Message("create_volume",
                               QueueGetFor(volume_topic, vols[src].host),
                               id, s, in.image.id, "-") >>)
        ELSE Result(in, "ok", ev \o << "cast" >>, id, vols, snapshots, q,
                    << Message("create_volume", << scheduler_topic >>,
                               id, s, in.image.id, volume_topic) >>)

create(in) ==
    LET s == in.snapshot
        size == as_int(IF s.id # 0 /\ NotSize(in.size)
                       THEN IntSize(s.volume_size) ELSE in.size)
        reserved == ~in.over
        q1 == IF reserved THEN QuotaReserve(quota) ELSE quota
        ev1 == IF reserved THEN << "reserve" >> ELSE << >>
        id == NextId(FreeVolumeIds)
        vols == [i \in VolumeIds |->
                    IF i = id THEN NewVolume(size.n, s.id) ELSE volumes[i]]
        Fails(out) == Result(in, out, ev1, 0, volumes, snapshots, q1, << >>)
    IN  IF ~in.permit THEN Raises(in, "PolicyNotAuthorized")
        ELSE IF s.id # 0 /\ s.status # "available"
        THEN Raises(in, "InvalidSnapshot")
        ELSE IF size = TypeErrorRaised THEN Raises(in, "TypeError")
        ELSE IF ~SizeAccepted(size) THEN Raises(in, "InvalidInput")
        ELSE IF in.over /\ OverQuotaError(in.overs) # "-"
        THEN [Raises(in, OverQuotaError(in.overs)) EXCEPT !.value =
                IF "gigabytes" \in in.overs THEN 0 ELSE in.quotas.volumes]
        ELSE IF in.image.id # 0 /\ ~in.image.found THEN Fails("ImageNotFound")
        ELSE IF in.image.id # 0 /\ ImageTooLarge(in.image, size.n)
        THEN Fails("InvalidInput")
        ELSE IF in.backend = "unknown" THEN Fails("NotFound")
        ELSE IF ~in.db_ok THEN Fails("DBError")
        ELSE IF id = 0 THEN OutOfIds(in)
        ELSE IF ~reserved
        THEN Result(in, "UnboundLocalError", << "volume_create" >>, 0,
                    vols, snapshots, q1, << >>)
        ELSE cast_create_volume(in, id,
                    ev1 \o << "volume_create", "commit" >>, vols,
                    QuotaCommit(q1, Deltas(1, size.n)))

Creates == Real({create(in) : in \in CreateInputs})

Create == \E r \in Creates : Apply(r)

(***************************************************************************)
(* get: the caller keeps the record it returns.                            *)
(***************************************************************************)
get(in) ==
    IF ~LiveVolume(in.volume_id) THEN Raises(in, "NotFound")
    ELSE IF ~in.permit THEN Raises(in, "PolicyNotAuthorized")
    ELSE [Raises(in, "ok") EXCEPT !.value = RecordOf(in.volume_id)]

Gets ==
    Real({get(in) : in \in [volume_id : VolumeIds, permit : BOOLEAN]})

Get ==
    \E r \in Gets :
        /\ r.outcome = "ok"
        /\ held' = r.value
        /\ UNCHANGED << volumes, snapshots, quota, casts, call, flow >>

(***************************************************************************)
(* The repository writes of the controller.  volume_update and             *)
(* snapshot_update read the row first and raise NotFound without it;       *)
(* volume_destroy marks the rows of the id deleted, whether or not there   *)
(* is one.                                                                 *)
(***************************************************************************)
volume_update(i, fields) ==
    [volumes EXCEPT ![i] = [f \in DOMAIN @ |->
        IF f \in DOMAIN fields THEN fields[f] ELSE @[f]]]

volume_destroy(i) ==
    [volumes EXCEPT ![i] = IF @.row = "live" THEN GoneVolume ELSE @]

(***************************************************************************)
(* delete.                                                                 *)
(***************************************************************************)
DeleteInputs ==
    {in \in [volume : VolumeArgs, force : BOOLEAN, permit : BOOLEAN,
             reserve_ok : BOOLEAN, db_ok : BOOLEAN] :
        /\ ~in.permit => ~in.force
        /\ ~in.permit \/ in.volume.host # None => in.reserve_ok /\ in.db_ok}

\* the path of a volume with a host (lines 228-244)
DeleteScheduled(in) ==
    LET v == in.volume
        n == Cardinality(SnapshotsForVolume(v.id))
    IN  IF DeleteRefused(in.force, v.status) THEN Raises(in, "InvalidVolume")
        ELSE IF n # 0 THEN [Raises(in, "InvalidVolume") EXCEPT !.value = n]
        ELSE IF ~LiveVolume(v.id) THEN Raises(in, "NotFound")
        ELSE Result(in, "ok", << "volume_update", "cast" >>, 0,
                volume_update(v.id,
                    [status |-> "deleting", terminated_at |-> TRUE]),
                snapshots, quota,
                << Message("delete_volume", QueueGetFor(volume_topic, v.host),
                           v.id, 0, 0, "-") >>)

\* a delete that treats a volume without a host like one with a host
DeleteUnscheduledLikeScheduled(in) == DeleteScheduled(in)

\* a delete of a volume without a host that gives back the volume but not
\* its gigabytes
DeleteUnscheduledKeepsGigabytes(in) ==
    LET v == in.volume
        q1 == IF in.reserve_ok THEN QuotaReserve(quota) ELSE quota
        ev1 == IF in.reserve_ok THEN << "reserve" >> ELSE << >>
    IN  IF ~in.db_ok
        THEN Result(in, "DBError", ev1, 0, volumes, snapshots, q1, << >>)
        ELSE Result(in, "ok",
                ev1 \o << "volume_destroy" >>
                    \o (IF in.reserve_ok THEN << "commit" >> ELSE << >>),
                0, volume_destroy(v.id), snapshots,
                IF in.reserve_ok
                THEN QuotaCommit(q1, Deltas(-1, 0)) ELSE q1,
                << >>)

\* the path of a volume without a host (lines 213-227)
DeleteUnscheduled(in) ==
    LET v == in.volume
        q1 == IF in.reserve_ok THEN QuotaReserve(quota) ELSE quota
        ev1 == IF in.reserve_ok THEN << "reserve" >> ELSE << >>
    IN  IF ~in.db_ok
        THEN Result(in, "DBError", ev1, 0, volumes, snapshots, q1, << >>)
        ELSE Result(in, "ok",
                ev1 \o << "volume_destroy" >>
                    \o (IF in.reserve_ok THEN << "commit" >> ELSE << >>),
                0, volume_destroy(v.id), snapshots,
                IF in.reserve_ok
                THEN QuotaCommit(q1, Deltas(-1, -v.size)) ELSE q1,
                << >>)

delete(in) ==
    IF ~in.permit THEN Raises(in, "PolicyNotAuthorized")
    ELSE IF in.volume.host = None THEN DeleteUnscheduled(in)
    ELSE DeleteScheduled(in)

Deletes == Real({delete(in) : in \in DeleteInputs})

Delete == \E r \in Deletes : Apply(r)

(***************************************************************************)
(* update and the status operations built on it.  Each of them is wrapped  *)
(* by the policy check, and so is the update it calls.                     *)
(***************************************************************************)
StatusInputs ==
    {in \in [volume : VolumeArgs, permit : BOOLEAN, permit_update : BOOLEAN] :
        ~in.permit => in.permit_update}

\* update(context, volume, {"status": status}), called by an operation that
\* performed the side effects `ev` before it
update(in, status, ev, value, sent) ==
    IF ~in.permit_update
    THEN Result(in, "PolicyNotAuthorized", ev, 0, volumes, snapshots, quota,
                << >>)
    ELSE IF ~LiveVolume(in.volume.id)
    THEN Result(in, "NotFound", ev, 0, volumes, snapshots, quota, << >>)
    ELSE Result(in, "ok", ev \o << "volume_update" >>
                              \o (IF sent # << >> THEN << "cast" >> ELSE << >>),
                value, volume_update(in.volume.id, [status |-> status]),
                snapshots, quota, sent)

reserve_volume(in) ==
    IF ~in.permit THEN Raises(in, "PolicyNotAuthorized")
    ELSE update(in, "attaching", << >>, 0, << >>)

\* an unreserve_volume without the check of the status
UnreserveVolumeAlways(in) ==
    IF ~in.permit THEN Raises(in, "PolicyNotAuthorized")
    ELSE update(in, "available", << >>, 0, << >>)

unreserve_volume(in) ==
    IF ~in.permit THEN Raises(in, "PolicyNotAuthorized")
    ELSE IF in.volume.status = "attaching"
    THEN update(in, "available", << >>, 0, << >>)
    ELSE Raises(in, "ok")

begin_detaching(in) ==
    IF ~in.permit THEN Raises(in, "PolicyNotAuthorized")
    ELSE update(in, "detaching", << >>, 0, << >>)

\* a roll_detaching that makes the volume available
RollDetachingToAvailable(in) ==
    IF ~in.permit THEN Raises(in, "PolicyNotAuthorized")
    ELSE IF in.volume.status = "detaching"
    THEN update(in, "available", << >>, 0, << >>)
    ELSE Raises(in, "ok")

roll_detaching(in) ==
    IF ~in.permit THEN Raises(in, "PolicyNotAuthorized")
    ELSE IF in.volume.status = "detaching"
    THEN update(in, "in-use", << >>, 0, << >>)
    ELSE Raises(in, "ok")

ReserveVolumes == Real({reserve_volume(in) : in \in StatusInputs})
UnreserveVolumes == Real({unreserve_volume(in) : in \in StatusInputs})
BeginDetachings == Real({begin_detaching(in) : in \in StatusInputs})
RollDetachings == Real({roll_detaching(in) : in \in StatusInputs})

ReserveVolume == \E r \in ReserveVolumes : Apply(r)
UnreserveVolume == \E r \in UnreserveVolumes : Apply(r)
BeginDetaching == \E r \in BeginDetachings : Apply(r)
RollDetaching == \E r \in RollDetachings : Apply(r)

(***************************************************************************)
(* check_attach and check_detach: checks that raise or return, and write   *)
(* nothing.                                                                *)
(***************************************************************************)
CheckInputs == [volume : VolumeArgs, permit : BOOLEAN]

\* a check_attach that looks at the status only
CheckAttachStatusOnly(in) ==
    IF ~in.permit THEN Raises(in, "PolicyNotAuthorized")
    ELSE IF in.volume.status # "available" THEN Raises(in, "InvalidVolume")
    ELSE Raises(in, "ok")

check_attach(in) ==
    IF ~in.permit THEN Raises(in, "PolicyNotAuthorized")
    ELSE IF in.volume.status # "available" THEN Raises(in, "InvalidVolume")
    ELSE IF in.volume.attach_status = "attached"
    THEN Raises(in, "InvalidVolume")
    ELSE Raises(in, "ok")

\* a check_detach that also refuses a volume in error
CheckDetachRefusesError(in) ==
    IF ~in.permit THEN Raises(in, "PolicyNotAuthorized")
    ELSE IF in.volume.status \in {"available", "error"}
    THEN Raises(in, "InvalidVolume")
    ELSE Raises(in, "ok")

check_detach(in) ==
    IF ~in.permit THEN Raises(in, "PolicyNotAuthorized")
    ELSE IF in.volume.status = "available" THEN Raises(in, "InvalidVolume")
    ELSE Raises(in, "ok")

CheckAttachs == Real({check_attach(in) : in \in CheckInputs})
CheckDetachs == Real({check_detach(in) : in \in CheckInputs})

CheckAttach == \E r \in CheckAttachs : Apply(r)
CheckDetach == \E r \in CheckDetachs : Apply(r)

(***************************************************************************)
(* attach, detach, initialize_connection and terminate_connection: each    *)
(* asks the worker of the volume's host by a blocking call and returns its *)
(* reply.  What the worker writes while it handles the call is the step    *)
(* WorkerAttached, resp. WorkerDetached, below.                            *)
(***************************************************************************)
Replies == 1 .. 2

CallInputs ==
    {in \in [volume : VolumeArgs, permit : BOOLEAN, call_ok : BOOLEAN,
             reply : Replies] :
        /\ ~in.permit => in.call_ok
        /\ ~in.permit \/ ~in.call_ok => in.reply = 1}

\* the result r of an operation that issued the blocking calls msgs
Called(r, msgs) ==
    [in |-> r.in, outcome |-> r.outcome, events |-> r.events,
     value |-> r.value, volumes |-> r.volumes, snapshots |-> r.snapshots,
     quota |-> r.quota, sent |-> r.sent, fits |-> r.fits, called |-> msgs]

\* an rpc.call whose reply is not returned
RpcCallDroppingReply(in, method, before) ==
    Called([before EXCEPT
                !.outcome = IF in.call_ok THEN "ok" ELSE "Timeout",
                !.events = @ \o << "call" >>],
           << Message(method, QueueGetFor(volume_topic, in.volume.host),
                      in.volume.id, 0, 0, "-") >>)

\* `return rpc.call(context, queue, {"method": method, ...})` by an
\* operation whose result up to the call is `before`: the reply of the
\* worker is returned, a failure of the transport propagates
rpc_call(in, method, before) ==
    Called([before EXCEPT
                !.outcome = IF in.call_ok THEN "ok" ELSE "Timeout",
                !.events = @ \o << "call" >>,
                !.value = IF in.call_ok THEN in.reply ELSE 0],
           << Message(method, QueueGetFor(volume_topic, in.volume.host),
                      in.volume.id, 0, 0, "-") >>)

attach(in) ==
    IF ~in.permit THEN Called(Raises(in, "PolicyNotAuthorized"), << >>)
    ELSE rpc_call(in, "attach_volume", Raises(in, "ok"))

detach(in) ==
    IF ~in.permit THEN Called(Raises(in, "PolicyNotAuthorized"), << >>)
    ELSE rpc_call(in, "detach_volume", Raises(in, "ok"))

initialize_connection(in) ==
    IF ~in.permit THEN Called(Raises(in, "PolicyNotAuthorized"), << >>)
    ELSE rpc_call(in, "initialize_connection", Raises(in, "ok"))

Attachs == Real({attach(in) : in \in CallInputs})
Detachs == Real({detach(in) : in \in CallInputs})
InitializeConnections == Real({initialize_connection(in) : in \in CallInputs})

Attach == \E r \in Attachs : Apply(r)
Detach == \E r \in Detachs : Apply(r)
InitializeConnection == \E r \in InitializeConnections : Apply(r)

\* terminate_connection calls unreserve_volume, which calls update: three
\* policy checks
TerminateInputs ==
    {in \in [volume : VolumeArgs, permit : BOOLEAN, permit_unreserve : BOOLEAN,
             permit_update : BOOLEAN, call_ok : BOOLEAN, reply : Replies] :
        /\ Cardinality({f \in {"permit", "permit_unreserve", "permit_update",
                               "call_ok"} : ~in[f]}) <= 1
        /\ ~in.permit \/ ~in.permit_unreserve \/ ~in.permit_update
            \/ ~in.call_ok => in.reply = 1}

\* the unreserve_volume of terminate_connection
Unreserved(in) ==
    [unreserve_volume([volume |-> in.volume, permit |-> in.permit_unreserve,
                       permit_update |-> in.permit_update])
        EXCEPT !.in = in]

\* a terminate_connection that asks the worker before it unreserves
TerminateConnectionCallFirst(in) ==
    IF ~in.permit THEN Called(Raises(in, "PolicyNotAuthorized"), << >>)
    ELSE LET c == rpc_call(in, "terminate_connection", Raises(in, "ok"))
             u == Unreserved(in)
         IN  IF c.outcome # "ok" \/ u.outcome # "ok" THEN c
             ELSE [c EXCEPT !.events = @ \o u.events, !.volumes = u.volumes]

terminate_connection(in) ==
    IF ~in.permit THEN Called(Raises(in, "PolicyNotAuthorized"), << >>)
    ELSE LET u == Unreserved(in)
         IN  IF u.outcome # "ok" THEN Called(u, << >>)
             ELSE rpc_call(in, "terminate_connection", u)

TerminateConnections ==
    Real({terminate_connection(in) : in \in TerminateInputs})

TerminateConnection == \E r \in TerminateConnections : Apply(r)

(***************************************************************************)
(* copy_volume_to_image.                                                   *)
(***************************************************************************)
CopyInputs ==
    {in \in [volume : VolumeArgs, force : BOOLEAN, permit : BOOLEAN,
             permit_update : BOOLEAN] :
        ~in.permit => in.permit_update /\ ~in.force}

\* the id the image service gives the image it creates
NewImageId == 1

copy_volume_to_image(in) ==
    IF ~in.permit THEN Raises(in, "PolicyNotAuthorized")
    ELSE IF VolumeUnavailable(in.force, in.volume.status)
    THEN Raises(in, "InvalidVolume")
    ELSE update(in, "uploading", << "image_create" >>, "uploading",
            << Message("copy_volume_to_image",
                       QueueGetFor(volume_topic, in.volume.host),
                       in.volume.id, 0, NewImageId, "-") >>)

CopyVolumeToImages ==
    Real({copy_volume_to_image(in) : in \in CopyInputs})

CopyVolumeToImage == \E r \in CopyVolumeToImages : Apply(r)

(***************************************************************************)
(* Snapshots: _create_snapshot (create_snapshot passes force = False,      *)
(* create_snapshot_force passes True) and delete_snapshot.                 *)
(***************************************************************************)
SnapshotInputs ==
    {in \in [volume : VolumeArgs, force : BOOLEAN, permit : BOOLEAN] :
        ~in.permit => ~in.force}

\* the options _create_snapshot stores (lines 423-431)
NewSnapshot(v) ==
    [row |-> "live", status |-> "creating", volume_id |-> v.id,
     volume_size |-> v.size]

create_snapshot(in) ==
    LET v == in.volume
        id == NextId(FreeSnapshotIds)
    IN  IF ~in.permit THEN Raises(in, "PolicyNotAuthorized")
        ELSE IF SnapshotRefused(in.force, v.status)
        THEN Raises(in, "InvalidVolume")
        ELSE IF id = 0 THEN OutOfIds(in)
        ELSE Result(in, "ok", << "snapshot_create", "cast" >>, id, volumes,
                [s \in SnapshotIds |->
                    IF s = id THEN NewSnapshot(v) ELSE snapshots[s]],
                quota,
                << Message("create_snapshot",
                           QueueGetFor(volume_topic, v.host), v.id, id, 0,
                           "-") >>)

CreateSnapshots ==
    Real({create_snapshot(in) : in \in SnapshotInputs})

CreateSnapshot == \E r \in CreateSnapshots : Apply(r)

DeleteSnapshotInputs ==
    {in \in [snapshot : SnapshotArgs, force : BOOLEAN, permit : BOOLEAN] :
        ~in.permit => ~in.force}

delete_snapshot(in) ==
    LET s == in.snapshot
        updated == [snapshots EXCEPT ![s.id].status = "deleting"]
    IN  IF ~in.permit THEN Raises(in, "PolicyNotAuthorized")
        ELSE IF SnapshotDeleteRefused(in.force, s.status)
        THEN Raises(in, "InvalidVolume")
        ELSE IF ~LiveVolume(s.volume_id)
        THEN Result(in, "NotFound", << "snapshot_update" >>, 0, volumes,
                    updated, quota, << >>)
        ELSE Result(in, "ok", << "snapshot_update", "cast" >>, 0, volumes,
                    updated, quota,
                    << Message("delete_snapshot",
                               QueueGetFor(volume_topic,
                                           volumes[s.volume_id].host),
                               0, s.id, 0, "-") >>)

DeleteSnapshots ==
    Real({delete_snapshot(in) : in \in DeleteSnapshotInputs})

DeleteSnapshot == \E r \in DeleteSnapshots : Apply(r)

(***************************************************************************)
(* The scheduler and the workers.  A worker takes a message in flight and  *)
(* writes what it did to the repository; a message about a row that is no  *)
(* longer stored is dropped.  Attach and detach are requested by a         *)
(* blocking call, not by a cast.                                           *)
(***************************************************************************)
InFlight(method) == {k \in 1 .. Len(casts) : casts[k].method = method}

Taken(k) == [j \in 1 .. (Len(casts) - 1) |->
                IF j < k THEN casts[j] ELSE casts[j + 1]]

WorkerWrites(k, rows) ==
    /\ casts' = Taken(k)
    /\ volumes' = rows
    /\ UNCHANGED << snapshots, quota, held, call, flow >>

\* create_volume: the scheduler picks a host unless the message names one
WorkerCreated(k) ==
    LET m == casts[k]
    IN  IF LiveVolume(m.volume_id) /\ volumes[m.volume_id].status = "creating"
        THEN \E h \in (IF Len(m.topic) = 2 THEN {m.topic[2]} ELSE Hosts),
                ok \in BOOLEAN :
                WorkerWrites(k, [volumes EXCEPT ![m.volume_id] =
                    [@ EXCEPT !.host = h,
                              !.status = IF ok THEN "available" ELSE "error"]])
        ELSE WorkerWrites(k, volumes)

\* a delete_volume that leaves a busy volume in error
WorkerDeletedBusyToError(k) ==
    LET m == casts[k]
    IN  IF /\ LiveVolume(m.volume_id)
           /\ volumes[m.volume_id].attach_status # "attached"
        THEN \E busy \in BOOLEAN :
                WorkerWrites(k, [volumes EXCEPT ![m.volume_id] =
                    IF busy THEN [@ EXCEPT !.status = "error_deleting"]
                    ELSE GoneVolume])
        ELSE WorkerWrites(k, volumes)

\* delete_volume: the row is destroyed, unless the volume is attached or busy
WorkerDeleted(k) ==
    LET m == casts[k]
    IN  IF /\ LiveVolume(m.volume_id)
           /\ volumes[m.volume_id].attach_status # "attached"
        THEN \E busy \in BOOLEAN :
                WorkerWrites(k, [volumes EXCEPT ![m.volume_id] =
                    IF busy THEN [@ EXCEPT !.status = "available"]
                    ELSE GoneVolume])
        ELSE WorkerWrites(k, volumes)

\* copy_volume_to_image: the upload ended; the volume is in use again if it
\* is attached and available if it is not
WorkerUploaded(k) ==
    LET m == casts[k]
    IN  IF LiveVolume(m.volume_id) /\ volumes[m.volume_id].status = "uploading"
        THEN WorkerWrites(k, [volumes EXCEPT ![m.volume_id].status =
                IF volumes[m.volume_id].attach_status = "attached"
                THEN "in-use" ELSE "available"])
        ELSE WorkerWrites(k, volumes)

\* db.volume_attached, written by the worker that attached the volume
WorkerAttached(i) ==
    /\ LiveVolume(i) /\ volumes[i].host # None
    /\ volumes[i].status \in {"available", "attaching"}
    /\ volumes' = [volumes EXCEPT ![i] =
            [@ EXCEPT !.status = "in-use", !.attach_status = "attached"]]
    /\ UNCHANGED << snapshots, quota, casts, held, call, flow >>

\* db.volume_detached, written by the worker that detached the volume
WorkerDetached(i) ==
    /\ LiveVolume(i) /\ volumes[i].attach_status = "attached"
    /\ volumes' = [volumes EXCEPT ![i] =
            [@ EXCEPT !.status = "available", !.attach_status = "detached"]]
    /\ UNCHANGED << snapshots, quota, casts, held, call, flow >>

WorkerSnapshotWrites(k, rows) ==
    /\ casts' = Taken(k)
    /\ snapshots' = rows
    /\ UNCHANGED << volumes, quota, held, call, flow >>

\* create_snapshot: the worker created the snapshot
WorkerSnapshotCreated(k) ==
    LET m == casts[k]
    IN  IF /\ LiveSnapshot(m.snapshot_id)
           /\ snapshots[m.snapshot_id].status = "creating"
        THEN WorkerSnapshotWrites(k,
                [snapshots EXCEPT ![m.snapshot_id].status = "available"])
        ELSE WorkerSnapshotWrites(k, snapshots)

\* delete_snapshot: the row is destroyed, unless the snapshot is busy
WorkerSnapshotDeleted(k) ==
    LET m == casts[k]
    IN  IF LiveSnapshot(m.snapshot_id)
        THEN \E busy \in BOOLEAN :
                WorkerSnapshotWrites(k, [snapshots EXCEPT ![m.snapshot_id] =
                    IF busy THEN [@ EXCEPT !.status = "available"]
                    ELSE GoneSnapshot])
        ELSE WorkerSnapshotWrites(k, snapshots)

(***************************************************************************)
(* get_all and update_volume_metadata.  They read and write only what the  *)
(* repository hands them, so a call is modelled on its own: the rows of    *)
(* the repository it finds are part of its input, and what it returns and  *)
(* leaves stored is its output.                                            *)
(***************************************************************************)
MetaKeys == {"k1", "k2"}
MetaVals == {"v", "w"}

\* a metadata map over the keys ks: a set of << key, value >> pairs with no
\* key twice
MapsOver(ks) ==
    {m \in SUBSET (ks \X MetaVals) :
        \A a \in m, b \in m : a[1] = b[1] => a = b}

KeysOf(m) == {a[1] : a \in m}

\* dict.update: the pairs of `given` override those of m with the same key
DictUpdate(m, given) ==
    {a \in m : a[1] \notin KeysOf(given)} \cup given

Projects == {"p1", "p2"}

\* the rows volume_get_all returns, as dicts, but for their ids
ListedVolumes ==
    [project_id : Projects, status : {"available", "in-use"},
     volume_metadata : MapsOver({"k1"})]

\* the rows q with their ids, in the order of the repository
WithIds(q) ==
    [p \in 1 .. Len(q) |->
        [id |-> p, project_id |-> q[p].project_id, status |-> q[p].status,
         volume_metadata |-> q[p].volume_metadata]]

RECURSIVE SeqsUpTo(_, _)
SeqsUpTo(S, n) ==
    IF n = 0 THEN {<< >>}
    ELSE LET shorter == SeqsUpTo(S, n - 1)
         IN  shorter \cup {Append(q, x) : q \in {p \in shorter : Len(p) = n - 1},
                                           x \in S}

\* a search option that is not in search_opts
Absent == "<absent>"

NoMetadata == [given |-> FALSE, map |-> {}]

\* search_opts: the options a caller may pass ('bogus' names no field of a
\* volume)
SearchOpts ==
    [all_tenants : {Absent, "1"}, status : {Absent, "available", "in-use"},
     bogus : {Absent, "x"},
     metadata : {NoMetadata} \cup [given : {TRUE}, map : MapsOver(MetaKeys)]]

\* the keys of search_opts, but for metadata
FieldOpts == {"all_tenants", "status", "bogus"}

GetAllInputs ==
    [is_admin : BOOLEAN, project_id : {"p1"}, permit : {TRUE},
     search_opts : SearchOpts,
     rows : {WithIds(q) : q \in SeqsUpTo(ListedVolumes, MaxListed)}]
        \cup [is_admin : BOOLEAN, project_id : {"p1"}, permit : {FALSE},
              search_opts : {[all_tenants |-> Absent, status |-> Absent,
                              bogus |-> Absent, metadata |-> NoMetadata]},
              rows : {<< >>}]

\* db.volume_get_all and db.volume_get_all_by_project
volume_get_all(rows) == rows

volume_get_all_by_project(rows, project_id) ==
    LET InProject(v) == v.project_id = project_id
    IN  SelectSeq(rows, InProject)

\* _check_metadata_match
check_metadata_match(volume, searchdict) ==
    \A a \in searchdict :
        ~(a[1] \notin KeysOf(volume.volume_metadata)
            \/ \E b \in volume.volume_metadata : b[1] = a[1] /\ b[2] # a[2])

\* filter_func for an option that is not in filter_mapping:
\* volume.get(opt, not_found) == value
filter_func(volume, opt, value) ==
    opt \in DOMAIN volume /\ volume[opt] = value

\* `del search_opts['all_tenants']`
DelAllTenants(search_opts) == [search_opts EXCEPT !.all_tenants = Absent]

\* `if search_opts`: some option is left
SomeOpt(search_opts) ==
    \/ \E opt \in FieldOpts : search_opts[opt] # Absent
    \/ search_opts.metadata.given

\* a loop over search_opts that no filter breaks
MatchesAny(volume, search_opts) == TRUE

\* the loop over search_opts for one volume: no filter fails
MatchesAll(volume, search_opts) ==
    /\ \A opt \in FieldOpts :
        search_opts[opt] # Absent => filter_func(volume, opt, search_opts[opt])
    /\ search_opts.metadata.given =>
        check_metadata_match(volume, search_opts.metadata.map)

get_all(in) ==
    IF ~in.permit THEN [outcome |-> "PolicyNotAuthorized", value |-> << >>]
    ELSE LET all == in.is_admin /\ in.search_opts.all_tenants # Absent
             search_opts == IF all THEN DelAllTenants(in.search_opts)
                            ELSE in.search_opts
             found == IF all THEN volume_get_all(in.rows)
                      ELSE volume_get_all_by_project(in.rows, in.project_id)
             Match(v) == MatchesAll(v, search_opts)
         IN  [outcome |-> "ok",
              value |-> IF SomeOpt(search_opts) THEN SelectSeq(found, Match)
                        ELSE found]

GetAll ==
    /\ call.op = "none"
    /\ \E in \in GetAllInputs :
        call' = [op |-> "get_all", in |-> in, out |-> get_all(in)]
    /\ UNCHANGED << volumes, snapshots, quota, casts, held, flow >>

\* check_policy: target.update(target_obj or {}) raises ValueError for a
\* target_obj that is the id of a volume (a string) and not a dict
TargetId == "id"

check_policy(permit, target_obj) ==
    IF target_obj = TargetId THEN "ValueError"
    ELSE IF ~permit THEN "PolicyNotAuthorized"
    ELSE "ok"

\* the subject of a call: context.project_id and context.user_id
Contexts == [project_id : {"p1"}, user_id : {"u1"}]

\* the fields a target object may define
TargetPairs ==
    {<< "project_id", "p1" >>, << "project_id", "p2" >>,
     << "user_id", "u2" >>, << "id", "2" >>}

\* the target objects that are None or a dict
TargetObjs ==
    {[none |-> TRUE, dict |-> {}]}
        \cup [none : {FALSE},
              dict : {d \in SUBSET TargetPairs :
                        \A a \in d, b \in d : a[1] = b[1] => a = b}]

\* `target_obj or {}`
OrEmpty(target_obj) == IF target_obj.none THEN {} ELSE target_obj.dict

\* a target in which the fields of the subject override the target object's
PolicyTargetSubjectWins(context, target_obj) ==
    DictUpdate(OrEmpty(target_obj),
               {<< "project_id", context.project_id >>,
                << "user_id", context.user_id >>})

\* the target check_policy builds: the subject's project_id and user_id,
\* updated with the target object
policy_target(context, target_obj) ==
    DictUpdate({<< "project_id", context.project_id >>,
                << "user_id", context.user_id >>},
               OrEmpty(target_obj))

\* _action = 'volume:%s' % action
policy_action(action) == "volume:" \o action

PolicyInputs ==
    [context : Contexts, action : {"attach", "delete"},
     target_obj : TargetObjs, permit : BOOLEAN]

\* cinder.policy.enforce(context, _action, target): what it is given, and
\* whether it raises
enforce(in) ==
    [action |-> policy_action(in.action),
     target |-> policy_target(in.context, in.target_obj),
     outcome |-> IF in.permit THEN "ok" ELSE "PolicyNotAuthorized"]

CheckPolicy ==
    /\ call.op = "none"
    /\ \E in \in PolicyInputs :
        call' = [op |-> "check_policy", in |-> in, out |-> enforce(in)]
    /\ UNCHANGED << volumes, snapshots, quota, casts, held, flow >>

\* get_volume_metadata, wrapped by the policy check
get_volume_metadata(permit, volume, stored) ==
    LET checked == check_policy(permit, volume)
    IN  [outcome |-> checked,
         value |-> IF checked = "ok" THEN stored ELSE {}]

MetadataInputs ==
    {in \in [permit : BOOLEAN, permit_get : BOOLEAN,
             stored : MapsOver(MetaKeys), metadata : MapsOver(MetaKeys),
             delete : BOOLEAN] :
        ~in.permit => in.permit_get}

\* update_volume_metadata: out.stored is the metadata of the volume after
\* the call (db.volume_metadata_update with delete=True stores the map it
\* is given)
update_volume_metadata(in) ==
    IF ~in.permit
    THEN [outcome |-> "PolicyNotAuthorized", value |-> {}, stored |-> in.stored]
    ELSE IF in.delete
    THEN [outcome |-> "ok", value |-> in.metadata, stored |-> in.metadata]
    ELSE LET got == get_volume_metadata(in.permit_get, TargetId, in.stored)
             metadata == DictUpdate(got.value, in.metadata)
         IN  IF got.outcome # "ok"
             THEN [outcome |-> got.outcome, value |-> {}, stored |-> in.stored]
             ELSE [outcome |-> "ok", value |-> metadata, stored |-> metadata]

UpdateVolumeMetadata ==
    /\ call.op = "none"
    /\ \E in \in MetadataInputs :
        call' = [op |-> "update_volume_metadata", in |-> in,
                 out |-> update_volume_metadata(in)]
    /\ UNCHANGED << volumes, snapshots, quota, casts, held, flow >>

(***************************************************************************)
(* Concurrent callers.  Each caller reads a volume with get and then runs  *)
(* one operation on the record it read, while the other caller and the     *)
(* workers take their own steps: the attach flow is check_attach followed  *)
(* by reserve_volume, two calls; the other operations are one call.  The   *)
(* callers are permitted everything and the services do not fail.          *)
(***************************************************************************)
FlowOps == {"attach", "begin_detaching", "delete", "create_snapshot"}

\* the caller c is in the operation op, at pc
At(c, op, pc) == flow[c].op = op /\ flow[c].pc = pc

\* get, by a caller that is about to run op
Begin(c) ==
    /\ flow[c].pc = "idle"
    /\ \E r \in Gets, op \in FlowOps :
        /\ r.outcome = "ok"
        /\ flow' = [flow EXCEPT ![c] =
                        [op |-> op, pc |-> "got", volume |-> r.value]]
    /\ UNCHANGED << volumes, snapshots, quota, casts, held, call >>

\* the call of the caller c ended with the result r
Returned(c, r, pc) ==
    /\ r.fits
    /\ volumes' = r.volumes
    /\ snapshots' = r.snapshots
    /\ quota' = r.quota
    /\ casts' = casts \o r.sent
    /\ flow' = [flow EXCEPT ![c].pc = IF r.outcome = "ok" THEN pc ELSE "raised"]
    /\ UNCHANGED << held, call >>

\* the calls the caller c makes with the record it read
CheckAttachStep(c) ==
    /\ At(c, "attach", "got")
    /\ Returned(c, check_attach([volume |-> flow[c].volume, permit |-> TRUE]),
                "checked")

ReserveVolumeStep(c) ==
    /\ At(c, "attach", "checked")
    /\ Returned(c, reserve_volume([volume |-> flow[c].volume, permit |-> TRUE,
                                   permit_update |-> TRUE]),
                "done")

BeginDetachingStep(c) ==
    /\ At(c, "begin_detaching", "got")
    /\ Returned(c, begin_detaching([volume |-> flow[c].volume, permit |-> TRUE,
                                    permit_update |-> TRUE]),
                "done")

\* delete(volume), by the caller c
DeleteBy(c) ==
    delete([volume |-> flow[c].volume, force |-> FALSE, permit |-> TRUE,
            reserve_ok |-> TRUE, db_ok |-> TRUE])

DeleteStep(c) ==
    At(c, "delete", "got") /\ Returned(c, DeleteBy(c), "done")

CreateSnapshotStep(c) ==
    LET r == create_snapshot([volume |-> flow[c].volume, force |-> FALSE,
                              permit |-> TRUE])
    IN  At(c, "create_snapshot", "got") /\ r.outcome # "-"
            /\ Returned(c, r, "done")

(***************************************************************************)
(* The specification.                                                      *)
(***************************************************************************)
Next ==
    \/ Create
    \/ Delete
    \/ ReserveVolume
    \/ UnreserveVolume
    \/ BeginDetaching
    \/ RollDetaching
    \/ CheckAttach
    \/ CheckDetach
    \/ Attach
    \/ Detach
    \/ InitializeConnection
    \/ TerminateConnection
    \/ CopyVolumeToImage
    \/ CreateSnapshot
    \/ DeleteSnapshot
    \/ \E k \in InFlight("create_volume") : WorkerCreated(k)
    \/ \E k \in InFlight("delete_volume") : WorkerDeleted(k)
    \/ \E k \in InFlight("copy_volume_to_image") : WorkerUploaded(k)
    \/ \E k \in InFlight("create_snapshot") : WorkerSnapshotCreated(k)
    \/ \E k \in InFlight("delete_snapshot") : WorkerSnapshotDeleted(k)
    \/ \E i \in VolumeIds : WorkerAttached(i)
    \/ \E i \in VolumeIds : WorkerDetached(i)

\* callers read the record they pass for the call
Spec == Init /\ [][Next]_vars

\* callers may also pass a record they hold since an earlier get
NextHeld == Next \/ Get

SpecHeld == Init /\ [][NextHeld]_vars

\* the calls that are modelled on their own
NextCalls ==
    \/ GetAll
    \/ UpdateVolumeMetadata
    \/ CheckPolicy

SpecCalls == Init /\ [][NextCalls]_vars

\* two callers on the volumes that create and the workers bring about
NextCallers ==
    \/ Create
    \/ \E k \in InFlight("create_volume") : WorkerCreated(k)
    \/ \E i \in VolumeIds : WorkerAttached(i)
    \/ \E c \in Callers : Begin(c)
    \/ \E c \in Callers : CheckAttachStep(c)
    \/ \E c \in Callers : ReserveVolumeStep(c)
    \/ \E c \in Callers : BeginDetachingStep(c)
    \/ \E c \in Callers : DeleteStep(c)
    \/ \E c \in Callers : CreateSnapshotStep(c)

SpecCallers == Init /\ [][NextCallers]_vars

(***************************************************************************)
(* The claims.  A claim about what an operation does is stated over the    *)
(* results of the operation on every input, in every reachable state.      *)
(***************************************************************************)
Has(ev, e) == \E k \in 1 .. Len(ev) : ev[k] = e

Times(ev, e) == Cardinality({k \in 1 .. Len(ev) : ev[k] = e})

\* the non-deleted snapshots that reference the volume i
Dependents(i) ==
    {s \in SnapshotIds : snapshots[s].row = "live" /\ snapshots[s].volume_id = i}

\* the delete_volume messages in flight for the volume i
DeleteCasts(i) ==
    {k \in 1 .. Len(casts) :
        casts[k].method = "delete_volume" /\ casts[k].volume_id = i}

\* C1: whenever create fails after QUOTAS.reserve succeeded and before the
\* volume is persisted, the reservation is rolled back: the quota counters,
\* open reservations included, are what they were before the call.
C1_ReservationRolledBack ==
    \A r \in Creates :
        /\ r.outcome # "ok"
        /\ Has(r.events, "reserve")
        /\ ~Has(r.events, "volume_create")
        => r.quota = quota

\* C2: a successful create performs reserve, persistence (status creating,
\* attach_status detached), commit and one create_volume cast, in this order
\* and each once; a commit never comes before the persistence, never twice,
\* and never in a create that fails.
C2_CreateOrder ==
    \A r \in Creates :
        /\ r.outcome = "ok" =>
            /\ r.events = << "reserve", "volume_create", "commit", "cast" >>
            /\ Stored(r.volumes, r.value) /\ ~Stored(volumes, r.value)
            /\ r.volumes[r.value].status = "creating"
            /\ r.volumes[r.value].attach_status = "detached"
            /\ r.quota = [quota EXCEPT !.in_use =
                    AddDeltas(@, Deltas(1, r.volumes[r.value].size))]
            /\ Len(r.sent) = 1
            /\ r.sent[1].method = "create_volume"
            /\ r.sent[1].volume_id = r.value
        /\ Has(r.events, "commit") =>
            /\ Times(r.events, "commit") = 1
            /\ Len(r.events) >= 3
            /\ r.events[1] = "reserve"
            /\ r.events[2] = "volume_create"
            /\ r.events[3] = "commit"
        /\ r.outcome # "ok" => ~Has(r.events, "commit")

\* C3: when QUOTAS.reserve raises OverQuota naming gigabytes or volumes,
\* create raises VolumeSizeExceedsAvailableQuota if gigabytes is named (also
\* together with volumes) and VolumeLimitExceeded, carrying the volumes
\* quota, otherwise; nothing is persisted, committed or cast.
C3_OverQuota ==
    \A r \in Creates :
        r.in.over /\ r.in.overs # {} =>
            /\ "gigabytes" \in r.in.overs =>
                r.outcome = "VolumeSizeExceedsAvailableQuota"
            /\ "gigabytes" \notin r.in.overs =>
                /\ r.outcome = "VolumeLimitExceeded"
                /\ r.value = r.in.quotas.volumes
            /\ r.events = << >>
            /\ r.volumes = volumes
            /\ r.quota = quota
            /\ r.sent = << >>

\* a project with a volume stored is refused one more: by gigabytes when
\* both dimensions are exceeded, by volumes when only volumes is
C3_Witness ==
    /\ quota.in_use.volumes = MaxVolumes
    /\ \E r \in Creates :
        /\ r.in.over /\ r.in.overs = {"gigabytes", "volumes"}
        /\ r.outcome = "VolumeSizeExceedsAvailableQuota"
    /\ \E r \in Creates :
        /\ r.in.over /\ r.in.overs = {"volumes"}
        /\ r.outcome = "VolumeLimitExceeded"

\* C4: delete of a volume without a host, the policy permitting and the
\* destroy not failing, casts nothing and destroys the row (a later get
\* finds nothing), whatever the status and the force flag; a failing quota
\* reserve does not stop it, and the reservation {volumes -1, gigabytes
\* -size} is committed once, after the destroy, exactly if it was obtained.
C4_DeleteUnscheduled ==
    \A r \in Deletes :
        r.in.permit /\ r.in.volume.host = None /\ r.in.db_ok =>
            /\ r.outcome = "ok"
            /\ r.sent = << >>
            /\ ~Stored(r.volumes, r.in.volume.id)
            /\ \A i \in VolumeIds \ {r.in.volume.id} : r.volumes[i] = volumes[i]
            /\ r.in.reserve_ok =>
                /\ r.events = << "reserve", "volume_destroy", "commit" >>
                /\ r.quota = [quota EXCEPT !.in_use =
                        AddDeltas(@, Deltas(-1, -r.in.volume.size))]
            /\ ~r.in.reserve_ok =>
                /\ r.events = << "volume_destroy" >>
                /\ r.quota = quota

\* a volume without a host whose status is neither available nor error is
\* destroyed by a delete without force whose quota reserve fails
C4_Witness ==
    \E r \in Deletes :
        /\ r.in.volume.host = None
        /\ r.in.volume.status = "attaching"
        /\ ~r.in.force /\ ~r.in.reserve_ok
        /\ r.outcome = "ok"
        /\ Stored(volumes, r.in.volume.id)
        /\ ~Stored(r.volumes, r.in.volume.id)

\* C5 (as amended): delete of a volume with a host fails with InvalidVolume
\* exactly if the status check refuses it (no force and a status other than
\* available and error) or a non-deleted snapshot references the volume; on
\* that failure nothing is written and nothing is cast.  With force=true it
\* succeeds from any status and sets 'deleting', provided no non-deleted
\* snapshot references the volume.
C5_DeleteStatusCheck ==
    \A r \in Deletes :
        LET v == r.in.volume
            refused == ~r.in.force /\ v.status \notin {"available", "error"}
        IN  r.in.permit /\ v.host # None /\ Stored(volumes, v.id) =>
                /\ r.outcome = "InvalidVolume" <=>
                        refused \/ Dependents(v.id) # {}
                /\ r.outcome = "InvalidVolume" =>
                        r.volumes = volumes /\ r.sent = << >>
                /\ ~refused /\ Dependents(v.id) = {} =>
                        /\ r.outcome = "ok"
                        /\ r.volumes[v.id].status = "deleting"

\* a delete with force of an in-use volume succeeds, and one without force
\* is refused
C5_Witness ==
    /\ \E r \in Deletes :
        /\ r.in.volume.host # None /\ r.in.volume.status = "in-use"
        /\ r.in.force
        /\ r.outcome = "ok"
        /\ r.volumes[r.in.volume.id].status = "deleting"
    /\ \E r \in Deletes :
        /\ r.in.volume.host # None /\ r.in.volume.status = "in-use"
        /\ r.in.permit /\ ~r.in.force
        /\ r.outcome = "InvalidVolume"

\* C5 as the specification states it: delete of a volume with a host fails
\* with InvalidVolume unless force is true or the status is available or
\* error, leaving the volume as it is and casting nothing; with force=true
\* it succeeds from any status and sets 'deleting'.
C5_ForceSucceedsFromAnyStatus ==
    \A r \in Deletes :
        LET v == r.in.volume
            refused == ~r.in.force /\ v.status \notin {"available", "error"}
        IN  r.in.permit /\ v.host # None /\ Stored(volumes, v.id) =>
                /\ refused =>
                    /\ r.outcome = "InvalidVolume"
                    /\ r.volumes = volumes /\ r.sent = << >>
                /\ r.in.force =>
                    /\ r.outcome = "ok"
                    /\ r.volumes[v.id].status = "deleting"

\* C6 (as amended): delete of a volume with a host that a non-deleted
\* snapshot references fails with InvalidVolume, also with force=true,
\* writes nothing and casts nothing; the error carries the number of
\* dependent snapshots when the status check let the call pass, and is the
\* error of the status check otherwise.
C6_DeleteWithSnapshots ==
    \A r \in Deletes :
        LET v == r.in.volume
            refused == ~r.in.force /\ v.status \notin {"available", "error"}
        IN  r.in.permit /\ v.host # None /\ Dependents(v.id) # {} =>
                /\ r.outcome = "InvalidVolume"
                /\ r.value = IF refused THEN 0
                             ELSE Cardinality(Dependents(v.id))
                /\ r.volumes = volumes
                /\ r.sent = << >>

\* a delete with force of a volume with a host and a snapshot is refused
\* with the number of snapshots
C6_Witness ==
    \E r \in Deletes :
        /\ r.in.volume.host # None
        /\ Dependents(r.in.volume.id) # {}
        /\ r.in.force
        /\ r.outcome = "InvalidVolume"
        /\ r.value = Cardinality(Dependents(r.in.volume.id))

\* C6 as the specification states it: the failure always carries the number
\* of dependent snapshots.
C6_AlwaysCountsSnapshots ==
    \A r \in Deletes :
        LET v == r.in.volume
        IN  r.in.permit /\ v.host # None /\ Dependents(v.id) # {} =>
                /\ r.outcome = "InvalidVolume"
                /\ r.value = Cardinality(Dependents(v.id))
                /\ r.volumes = volumes
                /\ r.sent = << >>

\* C7: a successful delete of a volume with a host updates the row to
\* 'deleting' with terminated_at set and then casts one delete_volume
\* message with the volume id to the topic of the volume's host; it neither
\* destroys the row nor touches the quota.
C7_DeleteScheduled ==
    \A r \in Deletes :
        LET v == r.in.volume
        IN  v.host # None /\ r.outcome = "ok" =>
                /\ r.events = << "volume_update", "cast" >>
                /\ Stored(r.volumes, v.id)
                /\ r.volumes[v.id] = [volumes[v.id] EXCEPT
                        !.status = "deleting", !.terminated_at = TRUE]
                /\ \A i \in VolumeIds \ {v.id} : r.volumes[i] = volumes[i]
                /\ Len(r.sent) = 1
                /\ r.sent[1].method = "delete_volume"
                /\ r.sent[1].volume_id = v.id
                /\ r.sent[1].topic = << volume_topic, v.host >>
                /\ r.quota = quota
                /\ r.snapshots = snapshots

\* a volume in 'deleting' with terminated_at set, whose delete_volume
\* message is in flight to its host
C7_Witness ==
    \E i \in VolumeIds :
        /\ LiveVolume(i) /\ volumes[i].host # None
        /\ volumes[i].status = "deleting" /\ volumes[i].terminated_at
        /\ \E k \in DeleteCasts(i) :
            casts[k].topic = << volume_topic, volumes[i].host >>

\* C8: whatever the sequence of Controller operations on a volume, the
\* delete_volume message is cast at most once for it; in particular no two
\* delete_volume messages for one volume are in flight.
C8_NoDoubleDelete ==
    \A i \in VolumeIds : Cardinality(DeleteCasts(i)) <= 1

\* whether the result r stores attach_status as the state has it, and
\* 'detached' for a row it adds
KeepsAttachStatus(r) ==
    \A i \in VolumeIds :
        Stored(r.volumes, i) =>
            r.volumes[i].attach_status =
                IF Stored(volumes, i) THEN volumes[i].attach_status
                ELSE "detached"

C10_SnapshotKeepsVolume ==
    \A s \in SnapshotIds :
        LiveSnapshot(s) =>
            /\ LiveVolume(snapshots[s].volume_id)
            /\ volumes[snapshots[s].volume_id].status # "deleting"

\* the rows and counters a result leaves as the call found them
NothingWritten(r) ==
    /\ r.volumes = volumes
    /\ r.snapshots = snapshots
    /\ r.quota = quota
    /\ r.sent = << >>

\* C11: delete of a volume without a host leaves no reservation dangling:
\* a reservation obtained from the negative reserve is committed (or rolled
\* back) by the time delete returns or raises, so that no more reservations
\* are open after the call than before, also when the destroy fails.
C11_NoDanglingReservation ==
    \A r \in Deletes :
        r.in.permit /\ r.in.volume.host = None /\ Has(r.events, "reserve") =>
            /\ r.quota.open = quota.open
            /\ Has(r.events, "commit") \/ Has(r.events, "rollback")

\* C12: check_attach, the policy permitting, raises InvalidVolume for every
\* volume whose status is not available and for every volume that is
\* attached, returns exactly for an available volume that is not attached,
\* and writes nothing.
C12_CheckAttach ==
    \A r \in CheckAttachs :
        /\ NothingWritten(r) /\ r.events = << >>
        /\ r.in.permit =>
            /\ r.outcome \in {"ok", "InvalidVolume"}
            /\ r.outcome = "ok" <=>
                /\ r.in.volume.status = "available"
                /\ r.in.volume.attach_status # "attached"

\* an available volume that is still attached is refused
C12_Witness ==
    \E r \in CheckAttachs :
        /\ r.in.permit
        /\ r.in.volume.status = "available"
        /\ r.in.volume.attach_status = "attached"
        /\ r.outcome = "InvalidVolume"

\* C13: check_detach, the policy permitting, raises InvalidVolume exactly
\* for a volume whose status is available and returns for every other
\* status; it writes nothing.
C13_CheckDetach ==
    \A r \in CheckDetachs :
        /\ NothingWritten(r) /\ r.events = << >>
        /\ r.in.permit =>
            /\ r.outcome \in {"ok", "InvalidVolume"}
            /\ r.outcome = "InvalidVolume" <=> r.in.volume.status = "available"

\* a volume in error passes check_detach
C13_Witness ==
    \E r \in CheckDetachs :
        /\ r.in.permit
        /\ r.in.volume.status = "error"
        /\ r.outcome = "ok"

\* the rows of the volumes after a call that changed the status of the
\* volume i to `status` and nothing else
WithStatus(i, status) == [volumes EXCEPT ![i].status = status]

\* the policy permits the operation and the update it calls
Permitted(in) == in.permit /\ in.permit_update

\* C14: reserve_volume, the policy permitting, sets the status to attaching;
\* unreserve_volume sets it to available if it is attaching and otherwise
\* leaves the volume as it is.  Neither casts a message nor touches quota,
\* and neither changes anything but the status.
C14_ReserveUnreserve ==
    /\ \A r \in ReserveVolumes :
        /\ r.sent = << >> /\ r.quota = quota /\ r.snapshots = snapshots
        /\ Permitted(r.in) =>
            /\ r.outcome = "ok"
            /\ r.volumes = WithStatus(r.in.volume.id, "attaching")
    /\ \A r \in UnreserveVolumes :
        /\ r.sent = << >> /\ r.quota = quota /\ r.snapshots = snapshots
        /\ Permitted(r.in) =>
            /\ r.outcome = "ok"
            /\ volumes[r.in.volume.id].status = "attaching" =>
                r.volumes = WithStatus(r.in.volume.id, "available")
            /\ volumes[r.in.volume.id].status # "attaching" =>
                r.volumes = volumes

\* a volume that reserve_volume made attaching is made available again
C14_Witness ==
    \E r \in UnreserveVolumes :
        /\ Permitted(r.in)
        /\ volumes[r.in.volume.id].status = "attaching"
        /\ r.outcome = "ok"
        /\ r.volumes[r.in.volume.id].status = "available"

\* C15: begin_detaching on an in-use volume makes it detaching and changes
\* nothing else; roll_detaching on a detaching volume makes it in-use and
\* changes nothing else, so that the two in a row restore the in-use volume;
\* roll_detaching on a volume that is not detaching leaves it unchanged.
C15_BeginRollDetaching ==
    /\ \A r \in BeginDetachings :
        Permitted(r.in) /\ volumes[r.in.volume.id].status = "in-use" =>
            /\ r.outcome = "ok"
            /\ r.volumes = WithStatus(r.in.volume.id, "detaching")
            /\ NothingWritten([r EXCEPT !.volumes = volumes])
    /\ \A r \in RollDetachings :
        Permitted(r.in) =>
            /\ r.outcome = "ok"
            /\ NothingWritten([r EXCEPT !.volumes = volumes])
            /\ volumes[r.in.volume.id].status = "detaching" =>
                r.volumes = WithStatus(r.in.volume.id, "in-use")
            /\ volumes[r.in.volume.id].status # "detaching" =>
                r.volumes = volumes

\* an attached volume that begin_detaching made detaching is rolled back to
\* in-use
C15_Witness ==
    \E r \in RollDetachings :
        /\ Permitted(r.in)
        /\ volumes[r.in.volume.id].status = "detaching"
        /\ volumes[r.in.volume.id].attach_status = "attached"
        /\ r.outcome = "ok"
        /\ r.volumes[r.in.volume.id].status = "in-use"

\* C16: create_snapshot (force false), the policy permitting, raises
\* InvalidVolume for a volume that is not available, storing no snapshot and
\* casting nothing; create_snapshot_force succeeds from any status.  A
\* successful call stores one new snapshot with status creating, the id and
\* the size of the volume, then casts one create_snapshot message to the
\* topic of the volume's host, and leaves the volume as it is.
C16_CreateSnapshot ==
    \A r \in CreateSnapshots :
        LET v == r.in.volume
        IN  r.in.permit =>
            /\ r.outcome \in {"ok", "InvalidVolume"}
            /\ r.outcome = "InvalidVolume" <=>
                ~r.in.force /\ v.status # "available"
            /\ r.outcome = "InvalidVolume" =>
                NothingWritten(r) /\ r.events = << >>
            /\ r.outcome = "ok" =>
                /\ r.events = << "snapshot_create", "cast" >>
                /\ ~Stored(snapshots, r.value)
                /\ r.snapshots = [snapshots EXCEPT ![r.value] =
                        [row |-> "live", status |-> "creating",
                         volume_id |-> v.id, volume_size |-> volumes[v.id].size]]
                /\ Len(r.sent) = 1
                /\ r.sent[1].method = "create_snapshot"
                /\ r.sent[1].topic =
                        IF v.host = None THEN << volume_topic >>
                        ELSE << volume_topic, v.host >>
                /\ r.sent[1].volume_id = v.id
                /\ r.sent[1].snapshot_id = r.value
                /\ r.volumes = volumes
                /\ r.quota = quota

\* a volume in use is refused a snapshot without force and given one with
C16_Witness ==
    \E r, f \in CreateSnapshots :
        /\ r.in.volume.status = "in-use"
        /\ r.in.permit /\ ~r.in.force /\ r.outcome = "InvalidVolume"
        /\ f.in.volume = r.in.volume
        /\ f.in.permit /\ f.in.force /\ f.outcome = "ok"
        /\ f.snapshots[f.value].status = "creating"

\* C17: delete_snapshot, the policy permitting, changes state exactly if
\* force is true or the snapshot is available or in error, and raises
\* InvalidVolume otherwise; when it proceeds it sets the status of the
\* snapshot to deleting and casts one delete_snapshot message to the topic
\* of the host of the volume the snapshot names.
C17_DeleteSnapshot ==
    \A r \in DeleteSnapshots :
        LET s == r.in.snapshot
            proceeds == r.in.force \/ s.status \in {"available", "error"}
        IN  r.in.permit =>
            /\ ~proceeds => r.outcome = "InvalidVolume" /\ NothingWritten(r)
            /\ proceeds =>
                /\ r.snapshots = [snapshots EXCEPT ![s.id].status = "deleting"]
                /\ Len(r.sent) = 1
                /\ r.sent[1].method = "delete_snapshot"
                /\ r.sent[1].snapshot_id = s.id
                /\ LiveVolume(s.volume_id)
                /\ r.sent[1].topic =
                        IF volumes[s.volume_id].host = None
                        THEN << volume_topic >>
                        ELSE << volume_topic, volumes[s.volume_id].host >>

\* C18: copy_volume_to_image, the policy permitting, raises InvalidVolume
\* unless the volume is available, or in use with force true; on that
\* failure no image is created, nothing is written and nothing is cast.
\* Otherwise it creates the image, then sets the status to uploading, then
\* casts one copy_volume_to_image message with the id of the new image, and
\* returns a response whose status is uploading.
C18_CopyVolumeToImage ==
    \A r \in CopyVolumeToImages :
        LET v == r.in.volume
        IN  Permitted(r.in) =>
            /\ r.outcome \in {"ok", "InvalidVolume"}
            /\ r.outcome = "ok" <=>
                \/ v.status = "available"
                \/ v.status = "in-use" /\ r.in.force
            /\ r.outcome = "InvalidVolume" =>
                NothingWritten(r) /\ r.events = << >>
            /\ r.outcome = "ok" =>
                /\ r.events = << "image_create", "volume_update", "cast" >>
                /\ r.volumes = WithStatus(v.id, "uploading")
                /\ Len(r.sent) = 1
                /\ r.sent[1].method = "copy_volume_to_image"
                /\ r.sent[1].volume_id = v.id
                /\ r.sent[1].image_id = NewImageId
                /\ r.value = "uploading"
                /\ r.snapshots = snapshots /\ r.quota = quota

\* a volume in use is refused without force and uploaded with force
C18_Witness ==
    \E r, f \in CopyVolumeToImages :
        /\ r.in.volume.status = "in-use"
        /\ Permitted(r.in) /\ ~r.in.force /\ r.outcome = "InvalidVolume"
        /\ f.in.volume = r.in.volume
        /\ Permitted(f.in) /\ f.in.force /\ f.outcome = "ok"
        /\ f.volumes[f.in.volume.id].status = "uploading"

\* C19: create without a snapshot accepts a size given as a positive integer
\* or as a string encoding one and stores that integer as the size of the
\* volume; for every other size it raises InvalidInput before any quota is
\* reserved, any volume is stored or any message is cast.
C19_SizeCoercion ==
    \A r \in Creates :
        LET z == r.in.size
            positive == z.t \in {"int", "str"} /\ z.n > 0
        IN  r.in.permit /\ r.in.snapshot.id = 0 =>
            /\ positive /\ r.outcome = "ok" =>
                r.volumes[r.value].size = z.n
            /\ positive /\ r.in = [PlainCreate EXCEPT !.size = z] =>
                r.outcome = "ok"
            /\ ~positive =>
                /\ r.outcome = "InvalidInput"
                /\ NothingWritten(r) /\ r.events = << >>

\* the size of an image of gb * GB + rem bytes (rem < GB) in GB, rounded up
CeilGb(image) == image.gb + (IF image.rem > 0 THEN 1 ELSE 0)

\* C20: create with an image_id passes the image check exactly if the size
\* of the image in GB, rounded up, is at most the size asked for, and raises
\* InvalidInput otherwise: an image of exactly size GB is accepted, an image
\* one byte larger is refused, and an image of one byte counts as one GB.
C20_ImageSize ==
    \A r \in Creates :
        LET image == r.in.image
            size == r.in.size.n
        IN  /\ r.in = [PlainCreate EXCEPT !.size = IntSize(size),
                                          !.image = image]
            /\ image.id # 0 /\ image.found
            =>  /\ r.outcome \in {"ok", "InvalidInput"}
                /\ r.outcome = "ok" <=> CeilGb(image) <= size
                /\ r.outcome = "ok" =>
                    /\ r.volumes[r.value].size = size
                    /\ r.sent[1].image_id = image.id

\* a volume created from an image of exactly its size is stored and its
\* create_volume message, which names the image, is in flight; an image one
\* byte larger than the size asked for is refused
C20_Witness ==
    /\ \E k \in 1 .. Len(casts) :
        /\ casts[k].method = "create_volume"
        /\ casts[k].image_id # 0
        /\ LiveVolume(casts[k].volume_id)
    /\ \E r \in Creates :
        /\ r.in.image = Image(MaxSize, 0) /\ r.in.size = IntSize(MaxSize)
        /\ r.outcome = "ok"
    /\ \E r \in Creates :
        /\ r.in.image = Image(MaxSize, 1) /\ r.in.size = IntSize(MaxSize)
        /\ r.outcome = "InvalidInput"
    /\ \E r \in Creates :
        /\ r.in.image = Image(0, 1) /\ r.in.size = IntSize(1)
        /\ r.outcome = "ok"

\* the sizes that stand for no size: None, 0, '' and 0.0
NoSizeGiven(z) ==
    z \in {NoneSize, IntSize(0), BadStr(""), FloatSize("0.0", 0)}

\* C21: create with a snapshot that is not available raises InvalidSnapshot
\* before any quota is reserved or any volume stored; with an available
\* snapshot and no size (None, '' or 0) the new volume has the size of the
\* snapshot and names the snapshot; with a size, the size given is used.
C21_CreateFromSnapshot ==
    \A r \in Creates :
        LET s == r.in.snapshot
            z == r.in.size
        IN  r.in.permit /\ s.id # 0 =>
            /\ s.status # "available" =>
                /\ r.outcome = "InvalidSnapshot"
                /\ NothingWritten(r) /\ r.events = << >>
            /\ s.status = "available" =>
                /\ r.outcome # "InvalidSnapshot"
                /\ r.outcome = "ok" =>
                    /\ r.volumes[r.value].snapshot_id = s.id
                    /\ r.volumes[r.value].size =
                        IF NoSizeGiven(z) THEN s.volume_size ELSE z.n
                /\ NoSizeGiven(z) /\ ~r.in.same_host => r.outcome = "ok"
                /\ ~NoSizeGiven(z) =>
                    (r.outcome = "InvalidInput" <=>
                        ~(z.t \in {"int", "str", "float"} /\ z.n > 0))

\* a volume created from a snapshot of another volume is stored with the
\* size of the snapshot
C21_Witness ==
    \E i \in VolumeIds, s \in SnapshotIds :
        /\ LiveVolume(i) /\ LiveSnapshot(s)
        /\ volumes[i].snapshot_id = s
        /\ volumes[i].size = snapshots[s].volume_size
        /\ snapshots[s].volume_id # i

\* C22: the create_volume cast of a successful create goes to the topic of
\* the host of the snapshot's source volume exactly if a snapshot was given
\* and snapshot_same_host is set; otherwise it goes to the scheduler topic
\* with the volume topic as an argument.  The message carries the id of the
\* new volume, the id of the snapshot and the id of the image.
C22_CastRouting ==
    \A r \in Creates :
        r.outcome = "ok" =>
            LET s == r.in.snapshot
                m == r.sent[1]
            IN  /\ Len(r.sent) = 1
                /\ m.method = "create_volume"
                /\ m.volume_id = r.value
                /\ m.snapshot_id = s.id
                /\ m.image_id = r.in.image.id
                /\ s.id # 0 /\ r.in.same_host =>
                    /\ LiveVolume(s.volume_id)
                    /\ m.topic =
                        IF volumes[s.volume_id].host = None
                        THEN << volume_topic >>
                        ELSE << volume_topic, volumes[s.volume_id].host >>
                    /\ m.fwd = "-"
                /\ ~(s.id # 0 /\ r.in.same_host) =>
                    /\ m.topic = << scheduler_topic >>
                    /\ m.fwd = volume_topic

\* a create from a snapshot goes to the host of the source volume when
\* snapshot_same_host is set and to the scheduler when it is not
C22_Witness ==
    \E r, f \in Creates :
        /\ r.in.snapshot.id # 0 /\ r.in.same_host /\ r.outcome = "ok"
        /\ r.sent[1].topic = << volume_topic, "host1" >>
        /\ f.in = [r.in EXCEPT !.same_host = FALSE] /\ f.outcome = "ok"
        /\ f.sent[1].topic = << scheduler_topic >>

\* the rows of `rows` that belong to the project
OfProject(rows, project_id) ==
    LET Mine(v) == v.project_id = project_id
    IN  SelectSeq(rows, Mine)

\* C23: get_all returns the volumes of every project exactly if the subject
\* is admin and all_tenants is supplied, and the volumes of the subject's
\* project otherwise; all_tenants is stripped for admin and non-admin alike,
\* so that a call with no other filter returns every volume in scope.
C23_AllTenants ==
    call.op = "get_all" /\ call.out.outcome = "ok" =>
        LET in == call.in
            opts == in.search_opts
        IN  /\ opts.status = Absent /\ opts.bogus = Absent
            /\ ~opts.metadata.given
            =>  call.out.value =
                    IF in.is_admin /\ opts.all_tenants # Absent THEN in.rows
                    ELSE OfProject(in.rows, in.project_id)

\* C24: get_all returns exactly the volumes in scope that satisfy every
\* filter that remains: a filter on a field matches a volume that has the
\* field with that value (and no volume that lacks the field), the metadata
\* filter matches a volume whose metadata holds every pair of the filter.
\* The result keeps the order of the repository and holds no volume twice.
C24_Filters ==
    call.op = "get_all" /\ call.out.outcome = "ok" =>
        LET in == call.in
            opts == in.search_opts
            all == in.is_admin /\ opts.all_tenants # Absent
            scope == IF all THEN in.rows ELSE OfProject(in.rows, in.project_id)
            Sat(v) ==
                /\ opts.status # Absent => v.status = opts.status
                /\ opts.bogus = Absent
                /\ all \/ opts.all_tenants = Absent
                /\ opts.metadata.given =>
                    opts.metadata.map \subseteq v.volume_metadata
            idx == {p \in 1 .. Len(scope) : Sat(scope[p])}
            value == call.out.value
        IN  /\ Len(value) = Cardinality(idx)
            /\ \A j \in 1 .. Len(value) :
                \E p \in idx :
                    /\ value[j] = scope[p]
                    /\ Cardinality({q \in idx : q < p}) = j - 1
            /\ \A j, k \in 1 .. Len(value) :
                value[j].id = value[k].id => j = k

\* of two volumes in scope, a call with a status filter and a metadata
\* filter returned the second only
C24_Witness ==
    /\ call.op = "get_all" /\ call.out.outcome = "ok"
    /\ call.in.search_opts.status # Absent
    /\ call.in.search_opts.metadata.given
    /\ call.in.search_opts.metadata.map # {}
    /\ Len(call.in.rows) = 2
    /\ \A p \in 1 .. 2 : call.in.rows[p].project_id = call.in.project_id
    /\ Len(call.out.value) = 1
    /\ call.out.value[1].id = 2

\* the errors of validation and of the policy
ValidationErrors ==
    {"PolicyNotAuthorized", "InvalidInput", "InvalidSnapshot", "InvalidVolume"}

\* every result among rs that is an error of validation or of the policy
\* was raised before any side effect
FailClean(rs) ==
    \A r \in rs :
        r.outcome \in ValidationErrors =>
            r.events = << >> /\ NothingWritten(r)

\* C25: in every operation of the controller, PolicyNotAuthorized,
\* InvalidInput, InvalidSnapshot and InvalidVolume are raised before any
\* side effect: no repository write, no quota reserve, no image-service
\* create and no message has happened when the error reaches the caller.
C25_FailBeforeSideEffects ==
    /\ FailClean(Creates) /\ FailClean(Deletes)
    /\ FailClean(ReserveVolumes) /\ FailClean(UnreserveVolumes)
    /\ FailClean(BeginDetachings) /\ FailClean(RollDetachings)
    /\ FailClean(CheckAttachs) /\ FailClean(CheckDetachs)
    /\ FailClean(Attachs) /\ FailClean(Detachs)
    /\ FailClean(InitializeConnections) /\ FailClean(TerminateConnections)
    /\ FailClean(CopyVolumeToImages)
    /\ FailClean(CreateSnapshots) /\ FailClean(DeleteSnapshots)

\* the message of the one blocking call of r, to the topic of the host of
\* the volume
CallsHostOnce(r, method) ==
    /\ Len(r.called) = 1
    /\ r.called[1].method = method
    /\ r.called[1].volume_id = r.in.volume.id
    /\ r.called[1].topic =
            IF r.in.volume.host = None THEN << volume_topic >>
            ELSE << volume_topic, r.in.volume.host >>

\* C26: terminate_connection, the policy permitting, performs
\* unreserve_volume before it issues the terminate_connection call to the
\* host of the volume: an attaching volume is available when the call is
\* sent, whether or not the call then fails, and a volume in any other
\* status is left as it is.
C26_TerminateConnection ==
    \A r \in TerminateConnections :
        LET i == r.in.volume.id
        IN  r.in.permit /\ r.in.permit_unreserve /\ r.in.permit_update =>
            /\ CallsHostOnce(r, "terminate_connection")
            /\ r.snapshots = snapshots /\ r.quota = quota /\ r.sent = << >>
            /\ volumes[i].status = "attaching" =>
                /\ r.events = << "volume_update", "call" >>
                /\ r.volumes = WithStatus(i, "available")
            /\ volumes[i].status # "attaching" =>
                /\ r.events = << "call" >>
                /\ r.volumes = volumes

\* an attaching volume is made available by a terminate_connection whose
\* call to the worker then fails
C26_Witness ==
    \E r \in TerminateConnections :
        /\ volumes[r.in.volume.id].status = "attaching"
        /\ r.in.permit /\ r.in.permit_unreserve /\ r.in.permit_update
        /\ ~r.in.call_ok
        /\ r.outcome = "Timeout"
        /\ r.volumes[r.in.volume.id].status = "available"

\* what C27 says of one of the three operations
CallsOnly(rs, method) ==
    \A r \in rs :
        /\ NothingWritten(r)
        /\ r.in.permit =>
            /\ CallsHostOnce(r, method)
            /\ r.events = << "call" >>
            /\ r.in.call_ok => r.outcome = "ok" /\ r.value = r.in.reply
            /\ ~r.in.call_ok => r.outcome = "Timeout"

\* C27: attach, detach and initialize_connection, the policy permitting,
\* each issue one blocking call to the topic of the host of the volume,
\* return the reply of the worker and propagate a failure of the transport;
\* the controller writes nothing and reserves no quota in them, whatever
\* the status of the volume.
C27_BlockingCalls ==
    /\ CallsOnly(Attachs, "attach_volume")
    /\ CallsOnly(Detachs, "detach_volume")
    /\ CallsOnly(InitializeConnections, "initialize_connection")

\* attach of a volume in error returns the reply of the worker of its host,
\* and detach of the same volume propagates the failure of the transport
C27_Witness ==
    /\ \E r \in Attachs :
        /\ r.in.volume.status = "error" /\ r.in.volume.host # None
        /\ r.in.reply = 2 /\ r.outcome = "ok" /\ r.value = 2
    /\ \E r \in Detachs :
        /\ r.in.volume.status = "error"
        /\ ~r.in.call_ok /\ r.outcome = "Timeout"

\* the step of a worker that took the delete_volume message k and left the
\* volume stored
BusyVolume(k) ==
    /\ casts' = Taken(k)
    /\ LiveVolume(casts[k].volume_id)
    /\ volumes[casts[k].volume_id].attach_status # "attached"
    /\ volumes'[casts[k].volume_id].row = "live"

\* the step of a worker that took the delete_snapshot message k and left
\* the snapshot stored
BusySnapshot(k) ==
    /\ casts' = Taken(k)
    /\ LiveSnapshot(casts[k].snapshot_id)
    /\ snapshots'[casts[k].snapshot_id].row = "live"

\* C28: when the worker that executes a dispatched delete reports the
\* resource busy, the entity is not destroyed and does not enter an error
\* status: the volume, resp. the snapshot, stays stored with status
\* available and nothing else changed, and a later delete of an available
\* volume that no snapshot references succeeds.
C28_BusyDelete ==
    /\ [][/\ \A k \in InFlight("delete_volume") :
            BusyVolume(k) =>
                volumes' = WithStatus(casts[k].volume_id, "available")
          /\ \A k \in InFlight("delete_snapshot") :
            BusySnapshot(k) =>
                snapshots' = [snapshots EXCEPT
                    ![casts[k].snapshot_id].status = "available"]]_vars
    /\ [](\A r \in Deletes :
            /\ r.in.permit /\ ~r.in.force
            /\ r.in.volume.host # None
            /\ r.in.volume.status = "available"
            /\ Dependents(r.in.volume.id) = {}
            => r.outcome = "ok")

\* a volume whose delete was dispatched (terminated_at is set) and whose
\* message was taken is stored and available, and can be deleted again
C28_Witness ==
    \E r \in Deletes :
        /\ volumes[r.in.volume.id].terminated_at
        /\ volumes[r.in.volume.id].status = "available"
        /\ volumes[r.in.volume.id].attach_status = "detached"
        /\ DeleteCasts(r.in.volume.id) = {}
        /\ r.in.permit /\ ~r.in.force
        /\ r.outcome = "ok"
        /\ r.volumes[r.in.volume.id].status = "deleting"

\* C29: update_volume_metadata, the policy permitting, with delete=true
\* makes the stored metadata the given map; with delete=false it makes it
\* the previous map overridden by the given map (the keys the call does not
\* name are kept); in both cases it returns the map it stored.
C29_UpdateMetadata ==
    call.op = "update_volume_metadata" /\ call.in.permit
        /\ call.in.permit_get =>
        LET in == call.in
            kept == {a \in in.stored :
                        \A b \in in.metadata : b[1] # a[1]}
        IN  /\ call.out.outcome = "ok"
            /\ call.out.stored =
                IF in.delete THEN in.metadata ELSE kept \cup in.metadata
            /\ call.out.value = call.out.stored

\* every result among rs casts at most once, and what it casts is what it
\* leaves in flight
CastsOnce(rs) ==
    \A r \in rs :
        Len(r.sent) <= 1 /\ Times(r.events, "cast") = Len(r.sent)

C31_CheckPolicy ==
    call.op = "check_policy" =>
        LET context == call.in.context
            given == IF call.in.target_obj.none THEN {}
                     ELSE call.in.target_obj.dict
            target == call.out.target
            Defines(d, key) == \E a \in d : a[1] = key
        IN  /\ call.out.action = (IF call.in.action = "attach"
                                  THEN "volume:attach" ELSE "volume:delete")
            /\ Defines(target, "project_id") /\ Defines(target, "user_id")
            /\ \A a \in target, b \in target : a[1] = b[1] => a = b
            /\ given \subseteq target
            /\ ~Defines(given, "project_id") =>
                    << "project_id", context.project_id >> \in target
            /\ ~Defines(given, "user_id") =>
                    << "user_id", context.user_id >> \in target
            /\ target \subseteq
                    given \cup {<< "project_id", context.project_id >>,
                                << "user_id", context.user_id >>}

\* check_policy was given a target object of another project that names no
\* user: the target has that project, the subject's user and the object's id
C31_Witness ==
    /\ call.op = "check_policy"
    /\ call.in.target_obj.dict = {<< "project_id", "p2" >>, << "id", "2" >>}
    /\ call.out.target =
            {<< "project_id", "p2" >>, << "user_id", "u1" >>, << "id", "2" >>}

\* C32: reserve_volume on a volume in a status other than 'available', and
\* begin_detaching on a volume in a status other than 'in-use', never change
\* the status of the volume.
C32_GuardedTransitions ==
    /\ \A r \in ReserveVolumes :
        r.in.volume.status # "available" => r.volumes = volumes
    /\ \A r \in BeginDetachings :
        r.in.volume.status # "in-use" => r.volumes = volumes

\* C33: whenever QUOTAS.reserve raises OverQuota in create, whatever
\* dimensions it names, create raises a quota error and persists no volume.
C33_OverQuotaPersistsNothing ==
    \A r \in Creates :
        r.in.over =>
            /\ r.outcome \in {"VolumeSizeExceedsAvailableQuota",
                               "VolumeLimitExceeded"}
            /\ r.volumes = volumes

\* C34: once create has persisted a volume and committed its quota, it casts
\* a create_volume message for that volume before it returns or raises.
C34_CommittedIsCast ==
    \A r \in Creates :
        \A i \in VolumeIds :
            /\ Stored(r.volumes, i) /\ ~Stored(volumes, i)
            /\ Has(r.events, "commit")
            => \E k \in 1 .. Len(r.sent) :
                /\ r.sent[k].method = "create_volume"
                /\ r.sent[k].volume_id = i

\* C35: a delete_snapshot that raises leaves the status of the snapshot as
\* it was: no snapshot is set to 'deleting' without a delete_snapshot message
\* having been cast.
C35_FailedDeleteSnapshot ==
    \A r \in DeleteSnapshots :
        r.outcome # "ok" => r.snapshots = snapshots /\ r.sent = << >>

\* the results rs leave a volume that is in 'deleting' in 'deleting'
KeepDeleting(rs) ==
    \A r \in rs :
        LET i == r.in.volume.id
        IN  LiveVolume(i) /\ volumes[i].status = "deleting" =>
                r.volumes[i].row = "live" /\ r.volumes[i].status = "deleting"

\* C36: once delete has set the status of a volume to 'deleting', none of
\* reserve_volume, unreserve_volume, begin_detaching, roll_detaching,
\* copy_volume_to_image, create_snapshot and delete without force changes
\* that status.
C36_DeletingIsKept ==
    /\ KeepDeleting(ReserveVolumes)
    /\ KeepDeleting(UnreserveVolumes)
    /\ KeepDeleting(BeginDetachings)
    /\ KeepDeleting(RollDetachings)
    /\ KeepDeleting(CopyVolumeToImages)
    /\ KeepDeleting({r \in CreateSnapshots : ~r.in.force})
    /\ KeepDeleting({r \in Deletes : ~r.in.force})

\* the same, but for reserve_volume and begin_detaching
C36_DeletingIsKeptByTheOthers ==
    /\ KeepDeleting(UnreserveVolumes)
    /\ KeepDeleting(RollDetachings)
    /\ KeepDeleting(CopyVolumeToImages)
    /\ KeepDeleting({r \in CreateSnapshots : ~r.in.force})
    /\ KeepDeleting({r \in Deletes : ~r.in.force})

\* C37: a delete without force by a caller that read the volume earlier sets
\* the volume to 'deleting' only if the status stored at the moment of the
\* update is 'available' or 'error', whatever reserve_volume, begin_detaching,
\* a worker's attach acknowledgment or another delete did since the read.
C37_DeleteChecksStored ==
    \A c \in Callers :
        At(c, "delete", "got") =>
            LET r == DeleteBy(c)
                i == flow[c].volume.id
            IN  r.outcome = "ok" /\ r.volumes[i].status = "deleting" =>
                    volumes[i].status \in {"available", "error"}

\* C38: of two callers that run check_attach and then reserve_volume on the
\* same available volume, at most one completes both calls, in every
\* interleaving (no step of the specification makes a volume available
\* again, so two completed flows on records read as available overlapped).
C38_OneAttachFlow ==
    \A c \in Callers, d \in Callers :
        /\ c # d
        /\ At(c, "attach", "done") /\ At(d, "attach", "done")
        /\ flow[c].volume.id = flow[d].volume.id
        => ~(/\ flow[c].volume.status = "available"
             /\ flow[d].volume.status = "available")

\* C39: a delete and a create_snapshot, both without force, that run at the
\* same time on an available volume with a host and no snapshot never both
\* succeed: the volume is never in 'deleting' with its delete_volume message
\* cast while the new snapshot, in 'creating', references it.
C39_DeleteOrSnapshot ==
    \A c \in Callers, d \in Callers :
        LET i == flow[c].volume.id
        IN  /\ At(c, "delete", "done") /\ At(d, "create_snapshot", "done")
            /\ flow[d].volume.id = i
            /\ flow[c].volume.status = "available"
            /\ flow[c].volume.host # None
            => ~(/\ LiveVolume(i) /\ volumes[i].status = "deleting"
                 /\ \E k \in InFlight("delete_volume") :
                        casts[k].volume_id = i
                 /\ \E s \in SnapshotIds :
                        /\ LiveSnapshot(s)
                        /\ snapshots[s].status = "creating"
                        /\ snapshots[s].volume_id = i)

\* the step is that of the result r
StepOf(r) ==
    /\ volumes' = r.volumes
    /\ snapshots' = r.snapshots
    /\ quota' = r.quota
    /\ casts' = casts \o r.sent

\* C40: a create that committed {volumes +1, gigabytes +size}, followed by a
\* delete of the volume it stored while the volume has no host, the delete's
\* quota reserve succeeding, leaves the committed quota of the project where
\* it was before the create: the delete commits {volumes -1, gigabytes -size}
\* with the same integer size.
C40_CreateThenDelete ==
    [][\A i \in VolumeIds :
        Stored(volumes', i) /\ ~Stored(volumes, i) =>
            \A r \in Creates :
                Has(r.events, "commit") /\ StepOf(r) =>
                    /\ r.quota.in_use =
                            AddDeltas(quota.in_use,
                                      Deltas(1, r.volumes[i].size))
                    /\ r.volumes[i].size \in 1 .. MaxSize
                    /\ \A d \in Deletes' :
                        /\ d.in.volume.id = i
                        /\ d.in.permit /\ d.in.reserve_ok /\ d.in.db_ok
                        => /\ d.outcome = "ok"
                           /\ ~Stored(d.volumes, i)
                           /\ d.quota.in_use = quota.in_use]_vars

\* a volume of the largest size was created and committed, has no host yet,
\* and its delete gives back one volume and all of its gigabytes
C40_Witness ==
    /\ quota.in_use = Deltas(1, MaxSize)
    /\ \E d \in Deletes :
        /\ d.in.volume.host = None
        /\ d.in.volume.status = "creating"
        /\ d.in.volume.size = MaxSize
        /\ d.in.permit /\ d.in.reserve_ok /\ d.in.db_ok
        /\ d.outcome = "ok"
        /\ d.quota.in_use = Deltas(0, 0)

====
